---- MODULE Spec2Model ----
(***************************************************************************)
(* The protein interaction network of proteingraph/pin.py: an atom table   *)
(* is turned into a residue graph (nodes, backbone edges), the interaction *)
(* detectors add bond kinds to its edges, and the features are computed.   *)
(*                                                                         *)
(* Lengths are integers in units of 0.1 Angstrom.  A distance matrix holds *)
(* SQUARED distances and a cutoff a is compared as d2 <= a*a, which is the *)
(* code's sqrt(d2) <= a for non-negative numbers.                          *)
(***************************************************************************)
EXTENDS Integers, Sequences, FiniteSets, TLC

VARIABLES
    dataframe,   \* self.dataframe: the atom table, a sequence of atom rows
    G,           \* the networkx graph: [node: id -> attributes, edge: key -> kind]
    ran,         \* the detectors that have run to completion
    pc,          \* where the construction stands
    features,    \* the "features" attribute of the nodes and of the edges
    ret,         \* the outcome of the last feature request
    writer,      \* concurrent commits: each writer's label, pairs and step
    atomic       \* concurrent commits: check and write are one step

vars == <<dataframe, G, ran, pc, features, ret, writer, atomic>>

\* The state of the feature requests and of the concurrent commits.
rest == <<features, ret, writer, atomic>>

(***************************************************************************)
(* resi_atoms: the residue tables pin.py imports.                          *)
(***************************************************************************)
BACKBONE_ATOMS == {"N", "CA", "C", "O"}

BOND_TYPES ==
    <<"backbone", "hydrophobic", "disulfide", "hbond", "ionic", "aromatic",
      "aromatic_sulphur", "cation_pi", "delaunay">>

BondVocabulary == {BOND_TYPES[i] : i \in DOMAIN BOND_TYPES}

RESI_NAMES ==
    {"ALA", "ASX", "CYS", "ASP", "GLU", "PHE", "GLY", "HIS", "ILE", "LYS",
     "LEU", "MET", "ASN", "PRO", "GLN", "ARG", "SER", "THR", "VAL", "TRP",
     "TYR", "GLX", "UNK"}

HYDROPHOBIC_RESIS ==
    {"ALA", "VAL", "LEU", "ILE", "MET", "PHE", "TRP", "PRO", "TYR"}

DISULFIDE_RESIS == {"CYS"}

DISULFIDE_ATOMS == {"SG"}

IONIC_RESIS == {"ARG", "LYS", "HIS", "ASP", "GLU"}

POS_AA == {"HIS", "LYS", "ARG"}

NEG_AA == {"GLU", "ASP"}

AROMATIC_RESIS == <<"PHE", "TRP", "HIS", "TYR">>

AA_RING_ATOMS(aa) ==
    CASE aa = "PHE" -> {"CG", "CD", "CE", "CZ"}
      [] aa = "TRP" -> {"CD", "CE", "CH", "CZ"}
      [] aa = "HIS" -> {"CG", "CD", "ND", "NE", "CE"}
      [] aa = "TYR" -> {"CG", "CD", "CE", "CZ"}

CATION_PI_RESIS == {"LYS", "ARG", "PHE", "TYR", "TRP"}

CATION_RESIS == {"LYS", "ARG"}

PI_RESIS == {"PHE", "TYR", "TRP"}

(***************************************************************************)
(* The cutoffs the detectors pass to get_interacting_atoms_, in 0.1 A.     *)
(***************************************************************************)
HydrophobicCutoff == 50
DisulfideCutoff == 22
HbondCutoff == 35
HbondSulphurCutoff == 40
IonicCutoff == 60
AromaticMin == 45
AromaticMax == 70
AromaticSulphurCutoff == 53
CationPiCutoff == 60

(***************************************************************************)
(* Sequence helpers.                                                       *)
(***************************************************************************)
Range(s) == {s[i] : i \in DOMAIN s}

Min(S) == CHOOSE m \in S : \A n \in S : m <= n

\* The rows of s that satisfy Keep, in order, re-indexed from 1
\* (df[...]; reset_index(drop=True)).
RECURSIVE SelectRows(_, _)
SelectRows(s, keep) ==
    IF s = << >> THEN << >>
    ELSE (IF keep[1] THEN <<Head(s)>> ELSE << >>)
             \o SelectRows(Tail(s), Tail(keep))

(***************************************************************************)
(* read_pdb: the ATOM table with the node_id column added.                 *)
(***************************************************************************)
NodeId(row) ==
    row.chain_id \o ToString(row.residue_number) \o row.residue_name

read_pdb(rows) ==
    [i \in DOMAIN rows |->
        [record_name    |-> rows[i].record_name,
         atom_name      |-> rows[i].atom_name,
         residue_name   |-> rows[i].residue_name,
         chain_id       |-> rows[i].chain_id,
         residue_number |-> rows[i].residue_number,
         x_coord        |-> rows[i].x_coord,
         y_coord        |-> rows[i].y_coord,
         z_coord        |-> rows[i].z_coord,
         node_id        |-> NodeId(rows[i])]]

(***************************************************************************)
(* filter_dataframe, compute_distmat, get_interacting_atoms_.              *)
(***************************************************************************)
\* by_column in list_of_values when boolean, not in it otherwise.
filter_dataframe(df, by_column, list_of_values, boolean) ==
    SelectRows(df, [i \in DOMAIN df |->
                      ((df[i][by_column] \in list_of_values) = boolean)])

get_rgroup_dataframe_(df) ==
    filter_dataframe(df, "atom_name", BACKBONE_ATOMS, FALSE)

Sq(n) == n * n

Dist2(a, b) ==
    Sq(a.x_coord - b.x_coord) + Sq(a.y_coord - b.y_coord)
        + Sq(a.z_coord - b.z_coord)

\* The square matrix of pairwise (squared) distances, indexed like df.
\* On an empty frame squareform returns a 1x1 matrix and setting the index
\* raises: distmat_fails tells that case.
distmat_fails(df) == Len(df) = 0

compute_distmat(df) ==
    [i \in DOMAIN df |-> [j \in DOMAIN df |-> Dist2(df[i], df[j])]]

\* get_interacting_atoms_ with the cutoff itself left out (distmat < angstroms).
get_interacting_atoms_strict(angstroms, distmat) ==
    {ij \in (DOMAIN distmat) \X (DOMAIN distmat) :
        distmat[ij[1]][ij[2]] < Sq(angstroms)}

\* np.where(distmat <= angstroms): the index pairs within the cutoff.
get_interacting_atoms_(angstroms, distmat) ==
    {ij \in (DOMAIN distmat) \X (DOMAIN distmat) :
        distmat[ij[1]][ij[2]] <= Sq(angstroms)}

(***************************************************************************)
(* The graph: networkx's node and edge dictionaries.  An edge is keyed by  *)
(* the set of its endpoints ({n} for a self loop) and holds its kind.      *)
(***************************************************************************)
NoNodes == [n \in {} |-> {}]

NoEdges == [e \in {} |-> {}]

EmptyGraph == [node |-> NoNodes, edge |-> NoEdges]

NoAttr == [meta |-> FALSE, chain_id |-> "", residue_number |-> 0,
           residue_name |-> "", x_coord |-> 0, y_coord |-> 0, z_coord |-> 0]

has_node(g, n) == n \in DOMAIN g.node

has_edge(g, u, v) == {u, v} \in DOMAIN g.edge

\* G.add_node(n, **attr)
add_node(g, n, attr) ==
    [g EXCEPT !.node = [m \in DOMAIN g.node \cup {n} |->
                           IF m = n THEN attr ELSE g.node[m]]]

\* G.add_edge(u, v, kind=k): endpoints that are no nodes yet are created
\* without attributes; the kind of an existing edge is replaced.
add_edge(g, u, v, k) ==
    [node |-> [m \in DOMAIN g.node \cup {u, v} |->
                  IF m \in DOMAIN g.node THEN g.node[m] ELSE NoAttr],
     edge |-> [e \in DOMAIN g.edge \cup {{u, v}} |->
                  IF e = {u, v} THEN k ELSE g.edge[e]]]

\* kind.add(k) that takes k out of a kind that holds it.
kind_toggle(g, u, v, k) ==
    [g EXCEPT !.edge[{u, v}] = IF k \in @ THEN @ \ {k} ELSE @ \cup {k}]

\* self.edges[u, v]["kind"].add(k)
kind_add(g, u, v, k) ==
    [g EXCEPT !.edge[{u, v}] = @ \cup {k}]

\* G.remove_edge(u, v)
remove_edge(g, u, v) ==
    [g EXCEPT !.edge = [e \in DOMAIN g.edge \ {{u, v}} |-> g.edge[e]]]

\* get_edges_by_bond_type: the edges whose kind holds bond_type.
get_edges_by_bond_type(g, bond_type) ==
    {e \in DOMAIN g.edge : bond_type \in g.edge[e]}

(***************************************************************************)
(* compute_chain_pos_aa_mapping: chain -> position -> aa.  groupby visits  *)
(* the (chain, position, aa) groups in sorted order and each group assigns *)
(* chain_pos_aa[chain][pos], so the last aa of a position in sorted order  *)
(* is the one the mapping keeps.  SortedNames is Python's string order of  *)
(* the residue names the atom tables below use.                            *)
(***************************************************************************)
SortedNames ==
    <<"ALA", "ARG", "ASP", "CYS", "MET", "MSE", "PHE", "SEP", "VAL">>

NameRank(aa) == CHOOSE i \in DOMAIN SortedNames : SortedNames[i] = aa

compute_chain_pos_aa_mapping(df) ==
    LET keys == {<<df[i].chain_id, df[i].residue_number>> : i \in DOMAIN df}
        aas(k) == {df[i].residue_name : i \in
                       {j \in DOMAIN df : <<df[j].chain_id,
                                            df[j].residue_number>> = k}}
    IN  [k \in keys |->
            CHOOSE aa \in aas(k) :
                \A other \in aas(k) : NameRank(other) <= NameRank(aa)]

(***************************************************************************)
(* compute_interaction_graph, first part: one node per group of ATOM rows, *)
(* with the coordinates of the group's first CA row.                       *)
(***************************************************************************)
AtomRows(df) == {i \in DOMAIN df : df[i].record_name = "ATOM"}

NodeGroups(df) ==
    {<<df[i].node_id, df[i].chain_id, df[i].residue_number,
       df[i].residue_name>> : i \in AtomRows(df)}

GroupCA(df, g) ==
    {i \in AtomRows(df) :
        /\ <<df[i].node_id, df[i].chain_id, df[i].residue_number,
             df[i].residue_name>> = g
        /\ df[i].atom_name = "CA"}

\* d.query("atom_name == 'CA'")[...].values[0] raises IndexError when a
\* group has no CA row.
nodes_fail(df) == \E g \in NodeGroups(df) : GroupCA(df, g) = {}

NodeAttr(df, g) ==
    LET ca == df[Min(GroupCA(df, g))]
    IN  [meta |-> TRUE, chain_id |-> g[2], residue_number |-> g[3],
         residue_name |-> g[4], x_coord |-> ca.x_coord,
         y_coord |-> ca.y_coord, z_coord |-> ca.z_coord]

add_nodes(df) ==
    [node |-> [n \in {g[1] : g \in NodeGroups(df)} |->
                  NodeAttr(df, CHOOSE g \in NodeGroups(df) : g[1] = n)],
     edge |-> NoEdges]

(***************************************************************************)
(* compute_interaction_graph, second part: the backbone edges.  For every  *)
(* node, the neighbour at pos - 1 and at pos + 1 is named from the         *)
(* chain_pos_aa mapping.                                                   *)
(***************************************************************************)
NeighbourId(chain, pos, aa) == chain \o ToString(pos) \o aa

\* The (n, neighbour) pairs the loop passes to G.add_edge.
backbone_pairs(g, chain_pos_aa) ==
    {<<n, NeighbourId(g.node[n].chain_id, q,
                      chain_pos_aa[<<g.node[n].chain_id, q>>])>> :
        <<n, q>> \in
            {nq \in (DOMAIN g.node) \X
                     UNION {{g.node[m].residue_number - 1,
                             g.node[m].residue_number + 1} :
                                m \in DOMAIN g.node} :
                /\ nq[2] \in {g.node[nq[1]].residue_number - 1,
                              g.node[nq[1]].residue_number + 1}
                /\ <<g.node[nq[1]].chain_id, nq[2]>> \in DOMAIN chain_pos_aa
                /\ g.node[nq[1]].residue_name \in RESI_NAMES
                /\ chain_pos_aa[<<g.node[nq[1]].chain_id, nq[2]>>]
                       \in RESI_NAMES}}

\* add_edge on a name that is no node adds a node while G.nodes is being
\* iterated: RuntimeError (dictionary changed size during iteration).
backbone_fails(g, chain_pos_aa) ==
    \E p \in backbone_pairs(g, chain_pos_aa) : ~has_node(g, p[2])

RECURSIVE add_backbone_edges(_, _)
add_backbone_edges(g, pairs) ==
    IF pairs = {} THEN g
    ELSE LET p == CHOOSE q \in pairs : TRUE
         IN  add_backbone_edges(add_edge(g, p[1], p[2], {"backbone"}),
                                pairs \ {p})

\* commit_resis that always calls add_edge with a fresh kind set.
commit_resis_overwrite(g, i1, i2, kind) ==
    IF i1 # i2 THEN add_edge(g, i1, i2, kind) ELSE g

(***************************************************************************)
(* add_interacting_resis_: commit the residue pairs of the interacting     *)
(* atoms with the given kinds.                                             *)
(***************************************************************************)
RECURSIVE kinds_add(_, _, _, _)
kinds_add(g, u, v, kind) ==
    IF kind = {} THEN g
    ELSE LET k == CHOOSE x \in kind : TRUE
         IN  kinds_add(kind_add(g, u, v, k), u, v, kind \ {k})

commit_resis(g, i1, i2, kind) ==
    IF i1 # i2
    THEN IF has_edge(g, i1, i2)
         THEN kinds_add(g, i1, i2, kind)
         ELSE add_edge(g, i1, i2, kind)
    ELSE g

RECURSIVE commit_all_resis(_, _, _)
commit_all_resis(g, resis, kind) ==
    IF resis = {} THEN g
    ELSE LET p == CHOOSE q \in resis : TRUE
         IN  commit_all_resis(commit_resis(g, p[1], p[2], kind),
                              resis \ {p}, kind)

\* The result of an operation on the graph: the graph it leaves, and
\* whether it ended in an exception.
Ok(g) == [err |-> FALSE, g |-> g]

Raised(g) == [err |-> TRUE, g |-> g]

add_interacting_resis_(g, interacting_atoms, df, kind) ==
    LET interacting_resis ==
            {<<df[a[1]].node_id, df[a[2]].node_id>> : a \in interacting_atoms}
    IN  IF \E k \in kind : k \notin BondVocabulary
        THEN Raised(g)
        ELSE Ok(commit_all_resis(g, interacting_resis, kind))

(***************************************************************************)
(* The detectors that go through add_interacting_resis_.  Each filters the *)
(* R-group rows, computes the distance matrix of the rows left (which      *)
(* raises when none is left) and commits the pairs within its cutoff.      *)
(***************************************************************************)
threshold_detector(g, sub_df, angstroms, kind) ==
    IF distmat_fails(sub_df)
    THEN Raised(g)
    ELSE add_interacting_resis_(
             g, get_interacting_atoms_(angstroms, compute_distmat(sub_df)),
             sub_df, kind)

hydrophobic(g, df) ==
    LET hydrophobics_df ==
            filter_dataframe(get_rgroup_dataframe_(df), "residue_name",
                             HYDROPHOBIC_RESIS, TRUE)
    IN  threshold_detector(g, hydrophobics_df, HydrophobicCutoff,
                           {"hydrophobic"})

\* disulfide without the filter on the sulfur atoms.
disulfide_any_atom(g, df) ==
    threshold_detector(
        g, filter_dataframe(get_rgroup_dataframe_(df), "residue_name",
                            DISULFIDE_RESIS, TRUE),
        DisulfideCutoff, {"disulfide"})

disulfide(g, df) ==
    LET disulfide_df ==
            filter_dataframe(
                filter_dataframe(get_rgroup_dataframe_(df), "residue_name",
                                 DISULFIDE_RESIS, TRUE),
                "atom_name", DISULFIDE_ATOMS, TRUE)
    IN  threshold_detector(g, disulfide_df, DisulfideCutoff, {"disulfide"})

HBOND_ATOMS ==
    {"ND", "NE", "NH", "NZ", "OD1", "OD2", "OE", "OG", "OH", "SD", "SG",
     "N", "O"}

HBOND_ATOMS_SULPHUR == {"SD", "SG"}

hbond(g, df) ==
    LET first == threshold_detector(
                     g,
                     filter_dataframe(get_rgroup_dataframe_(df), "atom_name",
                                      HBOND_ATOMS, TRUE),
                     HbondCutoff, {"hbond"})
    IN  IF first.err
        THEN first
        ELSE threshold_detector(
                 first.g,
                 filter_dataframe(get_rgroup_dataframe_(df), "atom_name",
                                  HBOND_ATOMS_SULPHUR, TRUE),
                 HbondSulphurCutoff, {"hbond"})

(***************************************************************************)
(* add_ionic_interactions_: commit the pairs of ionic residues within the  *)
(* cutoff, then strip "ionic" from every edge whose residues are not of    *)
(* opposite charges, removing the edge when no kind is left.               *)
(***************************************************************************)
EndA(e) == CHOOSE n \in e : TRUE

EndB(e) == IF Cardinality(e) = 1 THEN EndA(e) ELSE CHOOSE n \in e : n # EndA(e)

\* is_ionic that accepts any two charged residues.
is_ionic_any_charge(g, r1, r2) ==
    /\ g.node[r1].residue_name \in POS_AA \cup NEG_AA
    /\ g.node[r2].residue_name \in POS_AA \cup NEG_AA

is_ionic(g, r1, r2) ==
    \/ /\ g.node[r1].residue_name \in POS_AA
       /\ g.node[r2].residue_name \in NEG_AA
    \/ /\ g.node[r2].residue_name \in POS_AA
       /\ g.node[r1].residue_name \in NEG_AA

\* strip_ionic that removes the edge whatever other labels it holds.
strip_ionic_removes_edge(g, r1, r2) ==
    IF is_ionic(g, r1, r2) THEN g ELSE remove_edge(g, r1, r2)

\* strip_ionic that leaves the edge in place when its kind becomes empty.
strip_ionic_keeps_edge(g, r1, r2) ==
    IF is_ionic(g, r1, r2)
    THEN g
    ELSE [g EXCEPT !.edge[{r1, r2}] = @ \ {"ionic"}]

strip_ionic(g, r1, r2) ==
    LET stripped == [g EXCEPT !.edge[{r1, r2}] = @ \ {"ionic"}]
    IN  IF is_ionic(g, r1, r2)
        THEN g
        ELSE IF stripped.edge[{r1, r2}] = {}
             THEN remove_edge(stripped, r1, r2)
             ELSE stripped

RECURSIVE strip_all_ionic(_, _)
strip_all_ionic(g, es) ==
    IF es = {} THEN g
    ELSE LET e == CHOOSE x \in es : TRUE
         IN  strip_all_ionic(strip_ionic(g, EndA(e), EndB(e)), es \ {e})

ionic(g, df) ==
    LET ionic_df ==
            filter_dataframe(get_rgroup_dataframe_(df), "residue_name",
                             IONIC_RESIS, TRUE)
        added == threshold_detector(g, ionic_df, IonicCutoff, {"ionic"})
        es == get_edges_by_bond_type(added.g, "ionic")
    IN  IF added.err
        THEN added
        ELSE IF \E e \in es : \E n \in e : ~added.g.node[n].meta
             THEN Raised(added.g)      \* self.nodes[r]["residue_name"]: KeyError
             ELSE Ok(strip_all_ionic(added.g, es))

(***************************************************************************)
(* add_aromatic_interactions_: ring centroids between 4.5 and 7 A apart.   *)
(* A centroid is the mean of the ring atoms of one node_id; it is kept as  *)
(* the coordinate sums and the number of atoms, and two centroids are      *)
(* compared after multiplying through by both counts, which is exact.      *)
(***************************************************************************)
get_ring_atoms_(df, aa) ==
    filter_dataframe(filter_dataframe(df, "residue_name", {aa}, TRUE),
                     "atom_name", AA_RING_ATOMS(aa), TRUE)

RECURSIVE SumOver(_, _, _)
SumOver(df, rows, column) ==
    IF rows = {} THEN 0
    ELSE LET i == CHOOSE r \in rows : TRUE
         IN  df[i][column] + SumOver(df, rows \ {i}, column)

get_ring_centroids_(ring_atom_df) ==
    {LET rows == {i \in DOMAIN ring_atom_df : ring_atom_df[i].node_id = n}
     IN  [node_id |-> n, count |-> Cardinality(rows),
          x_sum |-> SumOver(ring_atom_df, rows, "x_coord"),
          y_sum |-> SumOver(ring_atom_df, rows, "y_coord"),
          z_sum |-> SumOver(ring_atom_df, rows, "z_coord")] :
        n \in {ring_atom_df[i].node_id : i \in DOMAIN ring_atom_df}}

\* (count_a * count_b)^2 times the squared distance of two centroids.
CentroidDist2(a, b) ==
    Sq(a.x_sum * b.count - b.x_sum * a.count)
        + Sq(a.y_sum * b.count - b.y_sum * a.count)
        + Sq(a.z_sum * b.count - b.z_sum * a.count)

\* aromatic_pairs with the interval open at both ends.
aromatic_pairs_open(aromatic_df) ==
    {<<a.node_id, b.node_id>> : <<a, b>> \in
        {ab \in aromatic_df \X aromatic_df :
            /\ CentroidDist2(ab[1], ab[2])
                   > Sq(AromaticMin * ab[1].count * ab[2].count)
            /\ CentroidDist2(ab[1], ab[2])
                   < Sq(AromaticMax * ab[1].count * ab[2].count)}}

\* distmat[(distmat >= 4.5) & (distmat <= 7)].fillna(0); np.where(distmat > 0)
aromatic_pairs(aromatic_df) ==
    {<<a.node_id, b.node_id>> : <<a, b>> \in
        {ab \in aromatic_df \X aromatic_df :
            /\ CentroidDist2(ab[1], ab[2])
                   >= Sq(AromaticMin * ab[1].count * ab[2].count)
            /\ CentroidDist2(ab[1], ab[2])
                   <= Sq(AromaticMax * ab[1].count * ab[2].count)
            /\ CentroidDist2(ab[1], ab[2]) > 0}}

commit_aromatic(g, n1, n2) ==
    IF has_edge(g, n1, n2)
    THEN kind_add(g, n1, n2, "aromatic")
    ELSE add_edge(g, n1, n2, {"aromatic"})

RECURSIVE commit_all_aromatic(_, _)
commit_all_aromatic(g, resis) ==
    IF resis = {} THEN g
    ELSE LET p == CHOOSE q \in resis : TRUE
         IN  commit_all_aromatic(commit_aromatic(g, p[1], p[2]), resis \ {p})

aromatic(g, df) ==
    LET aromatic_df ==
            UNION {get_ring_centroids_(get_ring_atoms_(df, AROMATIC_RESIS[i])) :
                       i \in DOMAIN AROMATIC_RESIS}
        interacting_resis == aromatic_pairs(aromatic_df)
    IN  IF aromatic_df = {}
        THEN Raised(g)                 \* compute_distmat of an empty frame
        ELSE IF \E p \in interacting_resis : \E n \in {p[1], p[2]} :
                    \/ ~has_node(g, n)
                    \/ ~g.node[n].meta
                    \/ g.node[n].residue_name \notin Range(AROMATIC_RESIS)
             THEN Raised(g)            \* the assertions on residue_name
             ELSE Ok(commit_all_aromatic(g, interacting_resis))

(***************************************************************************)
(* add_aromatic_sulphur_interactions_ and add_cation_pi_interactions_:     *)
(* the conditions test the node ids (resi1, resi2) of the two atoms        *)
(* against the lists of residue names.                                     *)
(***************************************************************************)
AS_RESIDUES == {"MET", "CYS", "PHE", "TYR", "TRP"}

AS_SULPHUR_RESIS == {"MET", "CYS"}

AS_AROMATIC_RESIS == {"PHE", "TYR", "TRP"}

commit_kind(g, resi1, resi2, k) ==
    IF has_edge(g, resi1, resi2)
    THEN kind_add(g, resi1, resi2, k)
    ELSE add_edge(g, resi1, resi2, {k})

commit_aromatic_sulphur(g, resi1, resi2) ==
    LET condition1 ==
            resi1 \in AS_SULPHUR_RESIS /\ resi2 \in AS_AROMATIC_RESIS
        condition2 ==
            resi1 \in AS_AROMATIC_RESIS /\ resi2 \in AS_SULPHUR_RESIS
    IN  IF (condition1 \/ condition2) /\ resi1 # resi2
        THEN commit_kind(g, resi1, resi2, "aromatic_sulphur")
        ELSE g

RECURSIVE commit_all_aromatic_sulphur(_, _)
commit_all_aromatic_sulphur(g, resis) ==
    IF resis = {} THEN g
    ELSE LET p == CHOOSE q \in resis : TRUE
         IN  commit_all_aromatic_sulphur(
                 commit_aromatic_sulphur(g, p[1], p[2]), resis \ {p})

aromatic_sulphur(g, df) ==
    LET aromatic_sulphur_df ==
            filter_dataframe(get_rgroup_dataframe_(df), "residue_name",
                             AS_RESIDUES, TRUE)
        interacting_atoms ==
            get_interacting_atoms_(AromaticSulphurCutoff,
                                   compute_distmat(aromatic_sulphur_df))
    IN  IF distmat_fails(aromatic_sulphur_df)
        THEN Raised(g)
        ELSE Ok(commit_all_aromatic_sulphur(
                    g, {<<aromatic_sulphur_df[a[1]].node_id,
                          aromatic_sulphur_df[a[2]].node_id>> :
                            a \in interacting_atoms}))

commit_cation_pi(g, resi1, resi2) ==
    LET condition1 == resi1 \in CATION_RESIS /\ resi2 \in PI_RESIS
        condition2 == resi1 \in PI_RESIS /\ resi2 \in CATION_RESIS
    IN  IF (condition1 \/ condition2) /\ resi1 # resi2
        THEN commit_kind(g, resi1, resi2, "cation_pi")
        ELSE g

RECURSIVE commit_all_cation_pi(_, _)
commit_all_cation_pi(g, resis) ==
    IF resis = {} THEN g
    ELSE LET p == CHOOSE q \in resis : TRUE
         IN  commit_all_cation_pi(commit_cation_pi(g, p[1], p[2]),
                                  resis \ {p})

cation_pi(g, df) ==
    LET cation_pi_df ==
            filter_dataframe(get_rgroup_dataframe_(df), "residue_name",
                             CATION_PI_RESIS, TRUE)
        interacting_atoms ==
            get_interacting_atoms_(CationPiCutoff,
                                   compute_distmat(cation_pi_df))
    IN  IF distmat_fails(cation_pi_df)
        THEN Raised(g)
        ELSE Ok(commit_all_cation_pi(
                    g, {<<cation_pi_df[a[1]].node_id,
                          cation_pi_df[a[2]].node_id>> :
                            a \in interacting_atoms}))

(***************************************************************************)
(* add_delaunay_triangulation_: the Delaunay triangulation of the CA rows. *)
(* scipy's Delaunay is modelled by what defines it: the simplices are the  *)
(* tetrahedra of four CA rows whose circumsphere holds no other CA row     *)
(* (exact for points in general position, which the atom tables below      *)
(* keep to), and it raises when no four rows span a volume.                *)
(***************************************************************************)
Vec(a, b) == <<b.x_coord - a.x_coord, b.y_coord - a.y_coord,
               b.z_coord - a.z_coord>>

Det3(u, v, w) ==
    u[1] * (v[2] * w[3] - v[3] * w[2])
        - u[2] * (v[1] * w[3] - v[3] * w[1])
        + u[3] * (v[1] * w[2] - v[2] * w[1])

Orient(a, b, c, d) == Det3(Vec(a, b), Vec(a, c), Vec(a, d))

\* The in-sphere determinant of e against the tetrahedron a b c d.
InSphereDet(a, b, c, d, e) ==
    LET ra == Vec(e, a)
        rb == Vec(e, b)
        rc == Vec(e, c)
        rd == Vec(e, d)
    IN  Dist2(b, e) * Det3(ra, rc, rd) - Dist2(a, e) * Det3(rb, rc, rd)
            - Dist2(c, e) * Det3(ra, rb, rd) + Dist2(d, e) * Det3(ra, rb, rc)

\* e lies strictly inside the sphere through a, b, c, d.
InSphere(a, b, c, d, e) ==
    \/ InSphereDet(a, b, c, d, e) < 0 /\ Orient(a, b, c, d) > 0
    \/ InSphereDet(a, b, c, d, e) > 0 /\ Orient(a, b, c, d) < 0

SeqOfSet(S) ==
    CHOOSE q \in [1..Cardinality(S) -> S] : Range(q) = S

Delaunay(ca_coords) ==
    {t \in SUBSET (DOMAIN ca_coords) :
        /\ Cardinality(t) = 4
        /\ LET q == SeqOfSet(t)
               a == ca_coords[q[1]]
               b == ca_coords[q[2]]
               c == ca_coords[q[3]]
               d == ca_coords[q[4]]
           IN  /\ Orient(a, b, c, d) # 0
               /\ \A i \in (DOMAIN ca_coords) \ t :
                      ~InSphere(a, b, c, d, ca_coords[i])}

\* for n1, n2 in combinations(nodes, 2): two rows of the simplex.
simplex_pairs(ca_coords, simplices) ==
    {<<ca_coords[ij[1]].node_id, ca_coords[ij[2]].node_id>> : ij \in
        {rc \in (DOMAIN ca_coords) \X (DOMAIN ca_coords) :
            /\ rc[1] < rc[2]
            /\ \E t \in simplices : rc[1] \in t /\ rc[2] \in t}}

commit_delaunay(g, n1, n2) ==
    IF has_edge(g, n1, n2)
    THEN kind_add(g, n1, n2, "delaunay")
    ELSE add_edge(g, n1, n2, {"delaunay"})

RECURSIVE commit_all_delaunay(_, _)
commit_all_delaunay(g, resis) ==
    IF resis = {} THEN g
    ELSE LET p == CHOOSE q \in resis : TRUE
         IN  commit_all_delaunay(commit_delaunay(g, p[1], p[2]), resis \ {p})

delaunay(g, df) ==
    LET ca_coords == SelectRows(df, [i \in DOMAIN df |->
                                        df[i].atom_name = "CA"])
        tri == Delaunay(ca_coords)
    IN  IF tri = {}
        THEN Raised(g)                 \* QhullError
        ELSE Ok(commit_all_delaunay(g, simplex_pairs(ca_coords, tri)))

(***************************************************************************)
(* The features.  A LabelBinarizer sorts the labels it is fitted on: its   *)
(* classes_ are the labels in Python's string order, and transform gives a *)
(* label the row that holds 1 at the label's place among the classes_.     *)
(***************************************************************************)
\* bond_lb.fit(BOND_TYPES): the classes_ of the bond binarizer.
bond_lb_classes ==
    <<"aromatic", "aromatic_sulphur", "backbone", "cation_pi", "delaunay",
      "disulfide", "hbond", "hydrophobic", "ionic">>

\* aa_lb.fit(RESI_NAMES): the classes_ of the residue binarizer.
aa_lb_classes ==
    <<"ALA", "ARG", "ASN", "ASP", "ASX", "CYS", "GLN", "GLU", "GLX", "GLY",
      "HIS", "ILE", "LEU", "LYS", "MET", "PHE", "PRO", "SER", "THR", "TRP",
      "TYR", "UNK", "VAL">>

\* lb.transform([y])[0]: a label that is no class gets a row of zeros.
lb_transform(classes, y) ==
    [i \in DOMAIN classes |-> IF classes[i] = y THEN 1 ELSE 0]

\* for b in bond_array: bonds = bonds + b
RECURSIVE add_bond_rows(_, _)
add_bond_rows(bonds, bond_set) ==
    IF bond_set = {} THEN bonds
    ELSE LET k == CHOOSE x \in bond_set : TRUE
             b == lb_transform(bond_lb_classes, k)
         IN  add_bond_rows([i \in DOMAIN bonds |-> bonds[i] + b[i]],
                           bond_set \ {k})

\* encode_bond_features that keeps the row of one label only (bonds = b).
encode_bond_features_one_hot(bond_set) ==
    IF bond_set = {} THEN [i \in 1..Len(BOND_TYPES) |-> 0]
    ELSE lb_transform(bond_lb_classes, CHOOSE x \in bond_set : TRUE)

\* encode_bond_features without the guard on an empty bond set: the
\* transform of no labels has no columns.
encode_bond_features_unguarded(bond_set) ==
    IF bond_set = {} THEN << >>
    ELSE add_bond_rows([i \in 1..Len(BOND_TYPES) |-> 0], bond_set)

encode_bond_features(bond_set) ==
    add_bond_rows([i \in 1..Len(BOND_TYPES) |-> 0], bond_set)

\* The scaled isoelectric point and molecular weight of a residue type, one
\* cell each; the tables have an entry for the canonical residue types.
ISOELECTRIC_POINTS_STD(aa) == <<[table |-> "pka", aa |-> aa]>>

MOLECULAR_WEIGHTS_STD(aa) == <<[table |-> "mw", aa |-> aa]>>

\* self.neighbors(node); the node itself when it has a self loop.
neighbors(g, node) == {m \in DOMAIN g.node : {node, m} \in DOMAIN g.edge}

\* self.degree(node): a self loop counts twice.
degree(g, node) ==
    Cardinality({e \in DOMAIN g.edge : node \in e})
        + Cardinality({e \in DOMAIN g.edge : e = {node}})

\* The sum over the neighbours of the C-alpha distance to the node, kept as
\* the squared distances that are summed, each with the number of neighbours
\* at that distance.
sum_eucl_dist(g, node) ==
    LET d2(m) == Dist2(g.node[node], g.node[m])
    IN  [d \in {d2(m) : m \in neighbors(g, node)} |->
            Cardinality({m \in neighbors(g, node) : d2(m) = d})]

\* node_bond_set that takes the kind of one edge at the node.
node_bond_set_one(g, node) ==
    IF neighbors(g, node) = {} THEN {}
    ELSE g.edge[{node, CHOOSE m \in neighbors(g, node) : TRUE}]

\* The union of the kinds of the edges at the node.
node_bond_set(g, node) ==
    UNION {g.edge[{node, m}] : m \in neighbors(g, node)}

\* compute_node_features raises: the assertion on has_node, the lookup of
\* residue_name on a node that has no attributes, or the lookup of a residue
\* type that the tables do not hold.
node_features_fail(g, node) ==
    \/ ~has_node(g, node)
    \/ ~g.node[node].meta
    \/ g.node[node].residue_name \notin RESI_NAMES

\* np.concatenate((aa_enc, pka, mw, deg, sum_eucl_dist, bonds)), reshaped to
\* one row.
compute_node_features(g, node) ==
    LET aa == g.node[node].residue_name
    IN  <<lb_transform(aa_lb_classes, aa)
              \o ISOELECTRIC_POINTS_STD(aa)
              \o MOLECULAR_WEIGHTS_STD(aa)
              \o <<degree(g, node)>>
              \o <<sum_eucl_dist(g, node)>>
              \o encode_bond_features(node_bond_set(g, node))>>

\* compute_edge_features raises when the pair is no edge.
edge_features_fail(g, u, v) == ~has_edge(g, u, v)

compute_edge_features(g, u, v) == encode_bond_features(g.edge[{u, v}])

(***************************************************************************)
(* The atom tables the construction is run on.  Every residue has a CA row *)
(* and side-chain rows on the x axis; residue X sits at position 1 with    *)
(* its side chain at 0, residue Y at a later position with its side chain  *)
(* at distance d.                                                          *)
(***************************************************************************)
MaxPos == 3

Row(atom, aa, pos, x, y, z) ==
    [record_name |-> "ATOM", atom_name |-> atom, residue_name |-> aa,
     chain_id |-> "A", residue_number |-> pos,
     x_coord |-> x, y_coord |-> y, z_coord |-> z]

\* The side-chain atoms of a residue type, each with its offset on the x axis.
SideAtoms(aa) ==
    CASE aa = "ARG" -> <<<<"NE", 0>>>>
      [] aa = "ASP" -> <<<<"OD1", 0>>>>
      [] aa = "CYS" -> <<<<"SG", 0>>, <<"CB", 30>>>>
      [] aa = "PHE" -> <<<<"CG", -10>>, <<"CZ", 10>>>>
      [] aa = "MET" -> <<<<"SD", 0>>>>
      [] aa = "MSE" -> <<<<"SE", 0>>>>
      [] OTHER -> << >>

\* Points in general position (no four in a plane, no five on a sphere).
GeoPoints ==
    <<<<0, 0, 0>>, <<10, 0, 0>>, <<0, 10, 0>>, <<0, 0, 10>>, <<7, 8, 9>>>>

\* A residue's rows: its CA row at point p, then its side-chain rows.
Residue(aa, pos, p, x) ==
    <<Row("CA", aa, pos, p[1], p[2], p[3])>>
        \o [i \in DOMAIN SideAtoms(aa) |->
               Row(SideAtoms(aa)[i][1], aa, pos, x + SideAtoms(aa)[i][2], 0, 0)]

\* CA rows on a line: the triangulation of such a table raises.
OnLine(k) == <<k, 0, 0>>

PairNames == {"ARG", "ASP", "CYS", "PHE", "MET", "MSE"}

Dists == {20, 22, 23, 30, 45, 50, 51, 60, 61, 70, 71}

PairTables ==
    {Residue(ax, 1, OnLine(1), 0) \o Residue(ay, py, OnLine(2), d) :
        <<ax, ay, py, d>> \in PairNames \X PairNames \X (2..MaxPos) \X Dists}

\* A pair and, far from it, one residue for every detector to look at, so
\* that the construction runs to its end; the CA rows are in general position.
BallastNames == {"ARG", "ASP", "PHE"}

BallastDists == {30, 45, 60, 61}

Ballast(p1, p2, p3) ==
    Residue("CYS", 11, p1, 1000) \o Residue("PHE", 13, p2, 2000)
        \o Residue("ARG", 15, p3, 3000)

BallastTables ==
    {Residue(ax, 1, GeoPoints[1], 0) \o Residue(ay, py, GeoPoints[2], d)
         \o Ballast(GeoPoints[3], GeoPoints[4], GeoPoints[5]) :
        <<ax, ay, py, d>> \in
            BallastNames \X BallastNames \X (2..MaxPos) \X BallastDists}

\* Chains of CA-only residues: every position carries a set of residue types.
ChainNames == <<"ALA", "MSE", "VAL">>

RECURSIVE ChainRows(_, _)
ChainRows(types, pos) ==
    IF pos > MaxPos THEN << >>
    ELSE [i \in 1..Cardinality(types[pos]) |->
             LET aa == SeqOfSet({n \in DOMAIN ChainNames :
                                    ChainNames[n] \in types[pos]})[i]
             IN  Row("CA", ChainNames[aa], pos, 3 * pos + aa, 0, 0)]
         \o ChainRows(types, pos + 1)

ChainTables ==
    {ChainRows(types, 1) : types \in [1..MaxPos -> SUBSET Range(ChainNames)]}
        \ {<< >>}

\* A charged pair whose positions may carry a second, CA-only residue type,
\* with the far residues that let the construction run to its end.
AltNames == {"", "VAL"}

AltResidue(aa, pos, k) ==
    IF aa = "" THEN << >> ELSE Residue(aa, pos, OnLine(k), 0)

AltTables ==
    {Residue(ax, 1, OnLine(1), 0) \o Residue(ay, py, OnLine(2), d)
         \o AltResidue(alt1, 1, 3) \o AltResidue(alt2, py, 4)
         \o Ballast(OnLine(5), OnLine(6), OnLine(7)) :
        <<ax, ay, py, d, alt1, alt2>> \in
            {"ARG", "ASP"} \X {"ARG", "ASP"} \X (2..MaxPos) \X {60, 61}
                \X AltNames \X AltNames}

\* Four CA rows that span a volume, each of one of four residues: two rows
\* may belong to the same residue (alternate locations of its CA atom).
GeoResidues == {"ALA", "VAL"} \X {1, 2}

GeoTables ==
    {[i \in 1..4 |-> Row("CA", r[i][1], r[i][2], GeoPoints[i][1],
                         GeoPoints[i][2], GeoPoints[i][3])] :
        r \in [1..4 -> GeoResidues]}

\* Tables handed to compute_interaction_graph that hold a residue outside
\* the canonical alphabet (MSE) or a record that is no ATOM record: a CA row
\* of an ALA residue, or the OG atom of a phosphoserine (SEP), at a position
\* next to or away from the residue at position 1.
HetRow(atom, aa, pos, x) ==
    [Row(atom, aa, pos, x, 0, 0) EXCEPT !.record_name = "HETATM"]

HetAtoms == {<<"CA", "ALA">>, <<"OG", "SEP">>}

HetPositions == {2, 9}

HetDists == {30, 60}

ForeignTables ==
    {Residue("MSE", 1, OnLine(1), 0)
         \o Ballast(OnLine(5), OnLine(6), OnLine(7))}
    \cup
    {Residue("ARG", 1, OnLine(1), 0) \o <<HetRow(h[1], h[2], pos, d)>>
         \o Ballast(OnLine(5), OnLine(6), OnLine(7)) :
        <<h, pos, d>> \in HetAtoms \X HetPositions \X HetDists}

AtomTables ==
    PairTables \cup BallastTables \cup ChainTables \cup AltTables
        \cup GeoTables \cup ForeignTables

(***************************************************************************)
(* The construction: ProteinGraph.__init__ and compute_interaction_graph.  *)
(***************************************************************************)
funcs ==
    <<"hydrophobic", "disulfide", "hbond", "ionic", "aromatic",
      "aromatic_sulphur", "cation_pi">>

DetectorNames == Range(funcs) \cup {"delaunay"}

\* The detector of a name, applied to a graph.
run_detector(name, g, df) ==
    CASE name = "hydrophobic" -> hydrophobic(g, df)
      [] name = "disulfide" -> disulfide(g, df)
      [] name = "hbond" -> hbond(g, df)
      [] name = "ionic" -> ionic(g, df)
      [] name = "aromatic" -> aromatic(g, df)
      [] name = "aromatic_sulphur" -> aromatic_sulphur(g, df)
      [] name = "cation_pi" -> cation_pi(g, df)
      [] name = "delaunay" -> delaunay(g, df)

\* for func in funcs: func()
RECURSIVE run_all(_, _, _)
run_all(names, g, df) ==
    IF names = << >> THEN Ok(g)
    ELSE LET r == run_detector(Head(names), g, df)
         IN  IF r.err THEN r ELSE run_all(Tail(names), r.g, df)

\* The graph with its nodes and backbone edges.
backbone_graph(df) ==
    add_backbone_edges(add_nodes(df),
                       backbone_pairs(add_nodes(df),
                                      compute_chain_pos_aa_mapping(df)))

NoFeatures == [node |-> NoNodes, edge |-> NoEdges]

NoWriters == [w \in {} |-> {}]

Init ==
    /\ dataframe \in {read_pdb(t) : t \in AtomTables}
    /\ G = EmptyGraph
    /\ ran = {}
    /\ pc = "nodes"
    /\ features = NoFeatures
    /\ ret = [call |-> "", arg |-> "", outcome |-> "None", rows |-> NoNodes]
    /\ writer = NoWriters
    /\ atomic = TRUE

Raise == pc' = "error" /\ UNCHANGED <<dataframe, G, ran, rest>>

Finish(result, name) ==
    IF result.err
    THEN Raise
    ELSE /\ G' = result.g
         /\ ran' = ran \cup {name}
         /\ UNCHANGED <<dataframe, pc, rest>>

compute_nodes ==
    /\ pc = "nodes"
    /\ IF nodes_fail(dataframe)
       THEN Raise
       ELSE /\ G' = add_nodes(dataframe)
            /\ pc' = "backbone"
            /\ UNCHANGED <<dataframe, ran, rest>>

add_backbone ==
    /\ pc = "backbone"
    /\ LET chain_pos_aa == compute_chain_pos_aa_mapping(dataframe)
       IN  IF backbone_fails(G, chain_pos_aa)
           THEN Raise
           ELSE /\ G' = add_backbone_edges(G, backbone_pairs(G, chain_pos_aa))
                /\ pc' = "detect"
                /\ UNCHANGED <<dataframe, ran, rest>>

add_hydrophobic_interactions_ ==
    pc = "detect" /\ Finish(hydrophobic(G, dataframe), "hydrophobic")

add_disulfide_interactions_ ==
    pc = "detect" /\ Finish(disulfide(G, dataframe), "disulfide")

add_hydrogen_bond_interactions_ ==
    pc = "detect" /\ Finish(hbond(G, dataframe), "hbond")

add_ionic_interactions_ ==
    pc = "detect" /\ Finish(ionic(G, dataframe), "ionic")

add_aromatic_interactions_ ==
    pc = "detect" /\ Finish(aromatic(G, dataframe), "aromatic")

add_aromatic_sulphur_interactions_ ==
    pc = "detect" /\ Finish(aromatic_sulphur(G, dataframe), "aromatic_sulphur")

add_cation_pi_interactions_ ==
    pc = "detect" /\ Finish(cation_pi(G, dataframe), "cation_pi")

add_delaunay_triangulation_ ==
    pc = "detect" /\ Finish(delaunay(G, dataframe), "delaunay")

\* for func in funcs: func(); return G
return_graph ==
    /\ pc = "detect"
    /\ Range(funcs) \subseteq ran
    /\ pc' = "done"
    /\ UNCHANGED <<dataframe, G, ran, rest>>

\* self.compute_all_node_features(): the first node that fails ends the
\* construction.
compute_all_node_features ==
    /\ pc = "done"
    /\ IF \E n \in DOMAIN G.node : node_features_fail(G, n)
       THEN Raise
       ELSE /\ features' = [features EXCEPT !.node =
                   [n \in DOMAIN G.node |-> compute_node_features(G, n)]]
            /\ pc' = "node_features"
            /\ UNCHANGED <<dataframe, G, ran, ret, writer, atomic>>

compute_all_edge_features ==
    /\ pc = "node_features"
    /\ features' = [features EXCEPT !.edge =
           [e \in DOMAIN G.edge |-> compute_edge_features(G, EndA(e), EndB(e))]]
    /\ pc' = "edge_features"
    /\ UNCHANGED <<dataframe, G, ran, ret, writer, atomic>>

\* Every kind becomes a list of the labels of the set, each once and in no
\* given order; G keeps the labels of the list.
convert_all_sets_to_lists ==
    /\ pc = "edge_features"
    /\ pc' = "ready"
    /\ UNCHANGED <<dataframe, G, ran, rest>>

\* The requests a caller makes of the constructed graph.
Ghost == "Z0UNK"

Returned(call, arg, outcome, rows) ==
    [call |-> call, arg |-> arg, outcome |-> outcome, rows |-> rows]

call_compute_edge_features ==
    /\ pc = "ready"
    /\ \E u, v \in DOMAIN G.node \cup {Ghost} :
          IF edge_features_fail(G, u, v)
          THEN /\ ret' = Returned("compute_edge_features", <<u, v>>,
                                  "AssertionError", NoNodes)
               /\ UNCHANGED features
          ELSE /\ features' = [features EXCEPT !.edge[{u, v}] =
                                  compute_edge_features(G, u, v)]
               /\ ret' = Returned("compute_edge_features", <<u, v>>,
                                  "None", NoNodes)
    /\ UNCHANGED <<dataframe, G, ran, pc, writer, atomic>>

call_compute_node_features ==
    /\ pc = "ready"
    /\ \E n \in DOMAIN G.node \cup {Ghost} :
          IF ~has_node(G, n)
          THEN /\ ret' = Returned("compute_node_features", n,
                                  "AssertionError", NoNodes)
               /\ UNCHANGED features
          ELSE /\ features' = [features EXCEPT !.node[n] =
                                  compute_node_features(G, n)]
               /\ ret' = Returned("compute_node_features", n,
                                  "None", NoNodes)
    /\ UNCHANGED <<dataframe, G, ran, pc, writer, atomic>>

FeatureKinds == {"node", "edge", "atom_name"}

\* feature_array that answers an unknown kind with the node features.
feature_array_defaults ==
    /\ pc = "ready"
    /\ \E kind \in FeatureKinds :
          ret' = IF kind = "edge"
                 THEN Returned("feature_array", kind, "array", features.edge)
                 ELSE Returned("feature_array", kind, "array", features.node)
    /\ UNCHANGED <<dataframe, G, ran, pc, features, writer, atomic>>

feature_array ==
    /\ pc = "ready"
    /\ \E kind \in FeatureKinds :
          ret' = IF kind \notin {"node", "edge"}
                 THEN Returned("feature_array", kind, "AssertionError",
                               NoNodes)
                 ELSE IF kind = "node"
                 THEN Returned("feature_array", kind, "array", features.node)
                 ELSE Returned("feature_array", kind, "array", features.edge)
    /\ UNCHANGED <<dataframe, G, ran, pc, features, writer, atomic>>

Next ==
    \/ compute_nodes
    \/ add_backbone
    \/ add_hydrophobic_interactions_
    \/ add_disulfide_interactions_
    \/ add_hydrogen_bond_interactions_
    \/ add_ionic_interactions_
    \/ add_aromatic_interactions_
    \/ add_aromatic_sulphur_interactions_
    \/ add_cation_pi_interactions_
    \/ add_delaunay_triangulation_
    \/ return_graph
    \/ compute_all_node_features
    \/ compute_all_edge_features
    \/ convert_all_sets_to_lists
    \/ call_compute_edge_features
    \/ call_compute_node_features
    \/ feature_array

Spec == Init /\ [][Next]_vars

(***************************************************************************)
(* Concurrent commits.  Two detectors commit their label for residue pairs *)
(* of one graph at the same time.  A commit is the code of                 *)
(* add_interacting_resis_: the has_edge test, then kind.add on the edge    *)
(* or add_edge with a fresh kind.  With atomic = FALSE the test and the    *)
(* write are separate steps of a writer; with atomic = TRUE they are one.  *)
(* The backbone edges are the commits of a writer that has finished.       *)
(***************************************************************************)
CommitNodes == {"A1PHE", "A2MET", "A3PHE"}

CommitPairs == {<<"A1PHE", "A2MET">>, <<"A2MET", "A3PHE">>}

CommitLabels == {"hydrophobic", "hbond", "aromatic_sulphur"}

Writers == {"first", "second"}

NewWriter(label, todo) ==
    [label |-> label, todo |-> todo, left |-> todo, step |-> "check",
     pair |-> <<"", "">>, saw |-> FALSE]

BackboneWriter(todo) ==
    [label |-> "backbone", todo |-> todo, left |-> {}, step |-> "check",
     pair |-> <<"", "">>, saw |-> FALSE]

\* The nodes, and a backbone edge on every pair of bb.
RECURSIVE CommitGraph(_, _)
CommitGraph(nodes, bb) ==
    IF nodes # {}
    THEN LET n == CHOOSE x \in nodes : TRUE
         IN  add_node(CommitGraph(nodes \ {n}, bb), n,
                      [NoAttr EXCEPT !.meta = TRUE])
    ELSE IF bb # {}
    THEN LET p == CHOOSE x \in bb : TRUE
         IN  add_edge(CommitGraph({}, bb \ {p}), p[1], p[2], {"backbone"})
    ELSE EmptyGraph

\* write_label that always calls add_edge with a fresh kind.
write_label_fresh(g, u, v, label, saw) == add_edge(g, u, v, {label})

\* The write that follows the has_edge test whose answer was saw.
write_label(g, u, v, label, saw) ==
    IF saw THEN kind_add(g, u, v, label) ELSE add_edge(g, u, v, {label})

InitCommit ==
    /\ dataframe = << >>
    /\ ran = {}
    /\ pc = "commit"
    /\ features = NoFeatures
    /\ ret = [call |-> "", arg |-> "", outcome |-> "None", rows |-> NoNodes]
    /\ atomic \in BOOLEAN
    /\ \E l1, l2 \in CommitLabels :
       \E bb, t1, t2 \in SUBSET CommitPairs :
          /\ l1 # l2 /\ t1 # {} /\ t2 # {}
          /\ G = CommitGraph(CommitNodes, bb)
          /\ writer = [w \in Writers \cup {"backbone"} |->
                          IF w = "backbone" THEN BackboneWriter(bb)
                          ELSE IF w = "first" THEN NewWriter(l1, t1)
                          ELSE NewWriter(l2, t2)]

CommitFrame == UNCHANGED <<dataframe, ran, pc, features, ret, atomic>>

\* if self.has_edge(i1, i2):
check_edge(w) ==
    /\ ~atomic
    /\ writer[w].step = "check"
    /\ \E p \in writer[w].left :
          writer' = [writer EXCEPT ![w].pair = p,
                                   ![w].saw = has_edge(G, p[1], p[2]),
                                   ![w].step = "write"]
    /\ UNCHANGED G
    /\ CommitFrame

\* self.edges[i1, i2]["kind"].add(k), or self.add_edge(i1, i2, kind=set(kind))
write_edge(w) ==
    /\ ~atomic
    /\ writer[w].step = "write"
    /\ G' = write_label(G, writer[w].pair[1], writer[w].pair[2],
                        writer[w].label, writer[w].saw)
    /\ writer' = [writer EXCEPT ![w].left = @ \ {writer[w].pair},
                                ![w].step = "check"]
    /\ CommitFrame

\* The test and the write of one pair in one step.
commit_edge(w) ==
    /\ atomic
    /\ writer[w].step = "check"
    /\ \E p \in writer[w].left :
          /\ G' = write_label(G, p[1], p[2], writer[w].label,
                              has_edge(G, p[1], p[2]))
          /\ writer' = [writer EXCEPT ![w].left = @ \ {p}]
    /\ CommitFrame

NextCommit ==
    \E w \in Writers :
        \/ check_edge(w)
        \/ write_edge(w)
        \/ commit_edge(w)

SpecCommit == InitCommit /\ [][NextCommit]_vars

(***************************************************************************)
(* Properties.  The rules are restated on the rows of the atom table.      *)
(***************************************************************************)
Nodes == DOMAIN G.node

Edges == DOMAIN G.edge

\* The kind of the pair u, v; empty when the pair is no edge.
Kind(u, v) == IF {u, v} \in Edges THEN G.edge[{u, v}] ELSE {}

ResName(n) == G.node[n].residue_name

\* The graph has its nodes and backbone edges.
Built == pc \in {"detect", "done"}

RowsOf(n) == {i \in DOMAIN dataframe : dataframe[i].node_id = n}

RGroupRows(n) ==
    {i \in RowsOf(n) : dataframe[i].atom_name \notin BACKBONE_ATOMS}

SulfurRows(n) ==
    {i \in RGroupRows(n) : dataframe[i].atom_name \in DISULFIDE_ATOMS}

\* Some row of I and some row of J are at most cutoff apart.
Within(I, J, cutoff) ==
    \E i \in I, j \in J :
        Dist2(dataframe[i], dataframe[j]) <= cutoff * cutoff

OppositeCharges(u, v) ==
    \/ ResName(u) \in POS_AA /\ ResName(v) \in NEG_AA
    \/ ResName(v) \in POS_AA /\ ResName(u) \in NEG_AA

SameCharge(u, v) ==
    \/ {ResName(u), ResName(v)} \subseteq POS_AA
    \/ {ResName(u), ResName(v)} \subseteq NEG_AA

Adjacent(u, v) ==
    /\ G.node[u].chain_id = G.node[v].chain_id
    /\ G.node[u].residue_number - G.node[v].residue_number \in {-1, 1}

\* C1: every edge has a kind that is not empty and holds only labels of the
\* bond vocabulary, after the backbone edges and after any detector runs.
KindsWellFormed ==
    \A e \in Edges : G.edge[e] # {} /\ G.edge[e] \subseteq BondVocabulary

\* C1 witness: the ionic detector has run and two residues of the same
\* charge within its cutoff are not joined: their edge was stripped and removed.
IonicEdgeRemoved ==
    /\ Built /\ "ionic" \in ran
    /\ \E u, v \in Nodes :
          /\ u # v /\ SameCharge(u, v)
          /\ Within(RGroupRows(u), RGroupRows(v), IonicCutoff)
          /\ {u, v} \notin Edges

\* C2: no edge joins a node to itself, after the backbone edges and after
\* any detector runs, the triangulation included.
NoSelfLoops == \A e \in Edges : Cardinality(e) = 2

\* C3: every edge whose kind holds "ionic" joins a residue of the positive
\* set and a residue of the negative set.
IonicOppositeCharges ==
    \A e \in Edges :
        "ionic" \in G.edge[e] =>
            \E u, v \in e : ResName(u) \in POS_AA /\ ResName(v) \in NEG_AA

\* C3 witness: the ionic detector has run, and an edge between two residues
\* of the same charge within its cutoff is left with its other labels.
IonicLabelStripped ==
    /\ Built /\ "ionic" \in ran
    /\ \E u, v \in Nodes :
          /\ u # v /\ SameCharge(u, v)
          /\ Within(RGroupRows(u), RGroupRows(v), IonicCutoff)
          /\ {u, v} \in Edges /\ "ionic" \notin Kind(u, v)

\* C4: any two nodes of a chain at adjacent positions whose residue types
\* are both canonical are joined by an edge with "backbone" in its kind.
BackboneConnectivity ==
    Built =>
        \A u, v \in Nodes :
            (/\ Adjacent(u, v)
             /\ ResName(u) \in RESI_NAMES /\ ResName(v) \in RESI_NAMES)
                => "backbone" \in Kind(u, v)

\* C5: in the constructed graph, two residues at adjacent positions, one of
\* the positive and one of the negative set, with R-group atoms within 6 A,
\* are joined by an edge whose kind holds both "backbone" and "ionic".
BackboneIonicUnion ==
    pc = "done" =>
        \A u, v \in Nodes :
            (/\ Adjacent(u, v) /\ OppositeCharges(u, v)
             /\ Within(RGroupRows(u), RGroupRows(v), IonicCutoff))
                => {"backbone", "ionic"} \subseteq Kind(u, v)

AromaticSulphurRule ==
    (Built /\ "aromatic_sulphur" \in ran) =>
        \A u, v \in Nodes :
            u # v =>
                ("aromatic_sulphur" \in Kind(u, v)
                    <=> /\ \/ /\ ResName(u) \in {"MET", "CYS"}
                              /\ ResName(v) \in {"PHE", "TYR", "TRP"}
                           \/ /\ ResName(v) \in {"MET", "CYS"}
                              /\ ResName(u) \in {"PHE", "TYR", "TRP"}
                        /\ Within(RGroupRows(u), RGroupRows(v),
                                  AromaticSulphurCutoff))

\* C8: after the cation_pi detector, two distinct residues are joined by an
\* edge with "cation_pi" exactly when one is of the cation set, the other
\* of the pi set, and two of their R-group atoms are within 6.0 A.
CationPiRule ==
    (Built /\ "cation_pi" \in ran) =>
        \A u, v \in Nodes :
            u # v =>
                ("cation_pi" \in Kind(u, v)
                    <=> /\ \/ /\ ResName(u) \in CATION_RESIS
                              /\ ResName(v) \in PI_RESIS
                           \/ /\ ResName(v) \in CATION_RESIS
                              /\ ResName(u) \in PI_RESIS
                        /\ Within(RGroupRows(u), RGroupRows(v),
                                  CationPiCutoff))

\* The ring atoms of a node and its centroid's distance to another's,
\* compared with a length r: |mean(I) - mean(J)| against r.
RingRows(n) ==
    {i \in RowsOf(n) :
        /\ dataframe[i].residue_name \in Range(AROMATIC_RESIS)
        /\ dataframe[i].atom_name
               \in AA_RING_ATOMS(dataframe[i].residue_name)}

MeanGap2(I, J) ==
    Sq(SumOver(dataframe, I, "x_coord") * Cardinality(J)
           - SumOver(dataframe, J, "x_coord") * Cardinality(I))
        + Sq(SumOver(dataframe, I, "y_coord") * Cardinality(J)
                 - SumOver(dataframe, J, "y_coord") * Cardinality(I))
        + Sq(SumOver(dataframe, I, "z_coord") * Cardinality(J)
                 - SumOver(dataframe, J, "z_coord") * Cardinality(I))

Scaled2(r, I, J) == Sq(r * Cardinality(I) * Cardinality(J))

AromaticPair(u, v) ==
    /\ ResName(u) \in Range(AROMATIC_RESIS)
    /\ ResName(v) \in Range(AROMATIC_RESIS)
    /\ RingRows(u) # {} /\ RingRows(v) # {}
    /\ MeanGap2(RingRows(u), RingRows(v))
           >= Scaled2(AromaticMin, RingRows(u), RingRows(v))
    /\ MeanGap2(RingRows(u), RingRows(v))
           <= Scaled2(AromaticMax, RingRows(u), RingRows(v))

\* C9: an edge holds "aromatic" only between two aromatic residues whose
\* ring centroids are between 4.5 and 7.0 A apart, both ends included; and
\* after the aromatic detector every such pair holds it.
AromaticRule ==
    Built =>
        \A u, v \in Nodes :
            /\ "aromatic" \in Kind(u, v) => AromaticPair(u, v)
            /\ ("aromatic" \in ran /\ AromaticPair(u, v))
                   => "aromatic" \in Kind(u, v)

\* C9 witness: a pair whose centroids are exactly 4.5 A apart is labelled.
AromaticAtLowerEnd ==
    /\ Built /\ "aromatic" \in ran
    /\ \E u, v \in Nodes :
          /\ "aromatic" \in Kind(u, v)
          /\ MeanGap2(RingRows(u), RingRows(v))
                 = Scaled2(AromaticMin, RingRows(u), RingRows(v))

KindIn(g, e) == IF e \in DOMAIN g.edge THEN g.edge[e] ELSE {}

DetectStep == pc = "detect" /\ pc' = "detect"

\* C11: in the detector phase, a detector that has already run and runs again
\* leaves the edge set and every kind as they are; in particular a detector
\* run twice in a row gives what one run gives.
DetectorIdempotent ==
    [][(DetectStep /\ ran' = ran) => G' = G]_vars

\* C11 witness: every detector of funcs has run, the ionic one on a pair of
\* residues of the same charge within its cutoff, and may run again.
AllRanWithIonicStrip ==
    /\ pc = "detect" /\ Range(funcs) \subseteq ran
    /\ \E u, v \in Nodes :
          /\ u # v /\ SameCharge(u, v)
          /\ Within(RGroupRows(u), RGroupRows(v), IonicCutoff)

\* C12: whatever the order (and number) of the detector runs after the
\* backbone edges, the constructed graph is the graph that the detectors
\* give in the order of funcs.
DetectorOrderIndependent ==
    pc = "done" =>
        G = run_all(IF "delaunay" \in ran THEN funcs \o <<"delaunay">>
                    ELSE funcs,
                    backbone_graph(dataframe), dataframe).g

\* C12 witness: a constructed graph with an edge that holds the labels of
\* two detectors besides "backbone".
ThreeLabelEdge ==
    /\ pc = "done"
    /\ \E e \in Edges : "backbone" \in G.edge[e] /\ Cardinality(G.edge[e]) >= 3

\* C18: a detector run changes the kind of no residue pair other than by
\* adding or removing the detector's own label L (an absent edge counts as
\* the empty kind).
DetectorFrame ==
    [][DetectStep =>
         \E L \in DetectorNames :
             /\ ran' = ran \cup {L}
             /\ \A e \in DOMAIN G.edge \cup DOMAIN G'.edge :
                    KindIn(G', e) \ {L} = KindIn(G, e) \ {L}]_vars

\* C18 witness: the ionic and the hbond detector have run, and a pair of the
\* same charge within 3.5 A keeps its edge with "hbond" and without "ionic".
IonicStripKeepsHbond ==
    /\ pc = "detect" /\ {"ionic", "hbond"} \subseteq ran
    /\ \E u, v \in Nodes :
          /\ u # v /\ SameCharge(u, v)
          /\ Within(RGroupRows(u), RGroupRows(v), HbondCutoff)
          /\ "hbond" \in Kind(u, v) /\ "ionic" \notin Kind(u, v)

HasEdgeFeatures == pc \in {"edge_features", "ready"}

HasNodeFeatures == pc \in {"node_features", "edge_features", "ready"}

Ones(v) == Cardinality({i \in DOMAIN v : v[i] = 1})

\* The multi-hot of a set of labels over a sequence of labels.
MultiHot(order, S) == [i \in DOMAIN order |-> IF order[i] \in S THEN 1 ELSE 0]

\* C13, as the code has it: encode_bond_features(S) has one entry per label
\* of the vocabulary, and its entry i is 1 exactly when the i-th label of the
\* vocabulary in sorted (alphabetical) order is in S; the feature vector of
\* every edge is this encoding of the edge's kind, with as many 1s as the
\* kind has labels.
BondEncodingSortedOrder ==
    HasEdgeFeatures =>
        /\ pc = "edge_features" =>
               \A S \in SUBSET BondVocabulary :
                   encode_bond_features(S) = MultiHot(bond_lb_classes, S)
        /\ \A e \in Edges :
               /\ e \in DOMAIN features.edge
               /\ Len(features.edge[e]) = Cardinality(BondVocabulary)
               /\ features.edge[e] = MultiHot(bond_lb_classes, G.edge[e])
               /\ Ones(features.edge[e]) = Cardinality(G.edge[e])

\* C13 as claimed: entry i is 1 exactly when the i-th label of the
\* vocabulary in its own list order is in the set.
BondEncodingListOrder ==
    HasEdgeFeatures =>
        /\ pc = "edge_features" =>
               \A S \in SUBSET BondVocabulary :
                   encode_bond_features(S) = MultiHot(BOND_TYPES, S)
        /\ \A e \in Edges :
               /\ e \in DOMAIN features.edge
               /\ features.edge[e] = MultiHot(BOND_TYPES, G.edge[e])
               /\ Ones(features.edge[e]) = Cardinality(G.edge[e])

\* C13 witness: an edge with several labels has its features, several 1s.
MultiHotEdge ==
    /\ HasEdgeFeatures
    /\ \E e \in Edges :
          Cardinality(G.edge[e]) >= 2 /\ Ones(features.edge[e]) >= 2

\* The length the test asserts for the features of every node.
TestedNodeFeatureLength == 36

DegreeIndex == Cardinality(RESI_NAMES) + 3

BondOffset == Cardinality(RESI_NAMES) + 4

IncidentEdges(n) == {e \in Edges : n \in e}

\* Once the detector phase is left no step changes the graph.
GraphIsFinal ==
    pc \in {"done", "node_features", "edge_features", "ready"} => G' = G

\* C15: features exist only once every detector of funcs has run, the graph
\* does not change once the construction has left the detector phase, and in
\* the constructed graph every node and edge has its features, the degree
\* entry of a node is the number of its edges and its bond entries encode
\* the union of the kinds of its edges.
FeaturesReflectFinalGraph ==
    /\ [](/\ features # NoFeatures => Range(funcs) \subseteq ran
          /\ pc = "ready" =>
                /\ DOMAIN features.node = Nodes
                /\ DOMAIN features.edge = Edges
                /\ \A n \in Nodes :
                      /\ features.node[n][1][DegreeIndex]
                             = Cardinality(IncidentEdges(n))
                      /\ \A i \in DOMAIN bond_lb_classes :
                             features.node[n][1][BondOffset + i] =
                                 IF \E e \in IncidentEdges(n) :
                                        bond_lb_classes[i] \in G.edge[e]
                                 THEN 1 ELSE 0)
    /\ [][GraphIsFinal]_vars

\* C15 witness: a constructed graph where a node has two edges of different
\* kinds.
NodeWithTwoKinds ==
    /\ pc = "ready"
    /\ \E n \in Nodes : \E e1, e2 \in IncidentEdges(n) : G.edge[e1] # G.edge[e2]

\* A step that ends in an assertion error changes neither graph nor features.
ErrorChangesNothing ==
    ret'.outcome = "AssertionError" => (G' = G /\ features' = features)

AllCommitted ==
    /\ writer # NoWriters
    /\ \A w \in DOMAIN writer :
           writer[w].left = {} /\ writer[w].step = "check"

\* The kind that the sequential runs (in either order) give a pair.
SequentialKind(p) ==
    {writer[w].label : w \in {x \in DOMAIN writer : p \in writer[x].todo}}

LabelLostAt(p) ==
    /\ Kind(p[1], p[2]) # SequentialKind(p)
    /\ Kind(p[1], p[2]) \subseteq SequentialKind(p)

\* C17: when all concurrent commits are done and each test-and-write was one
\* step, every pair has the kind of the sequential run; when test and write
\* were separate steps a pair has at least one and at most the labels of
\* the sequential run, so that a difference is a lost label.
ConcurrentCommits ==
    AllCommitted =>
        \A p \in CommitPairs :
            /\ atomic => Kind(p[1], p[2]) = SequentialKind(p)
            /\ Kind(p[1], p[2]) \subseteq SequentialKind(p)
            /\ SequentialKind(p) # {} => Kind(p[1], p[2]) # {}

\* C17 witness: test and write were separate steps, all commits are done,
\* and a pair has lost a label of the sequential run.
LabelLost ==
    /\ AllCommitted /\ ~atomic
    /\ \E p \in CommitPairs : LabelLostAt(p)

====
